---- MODULE Spec2Model ----
(***************************************************************************)
(* Authentication session engine of the Keycloak SSO / PKCE React client.  *)
(*                                                                         *)
(* The model follows src/src/services/authService.ts (the Auth Service),   *)
(* src/src/contexts/AuthContext.tsx (the session state machine) and        *)
(* src/src/components/Callback.tsx (the callback route).                   *)
(*                                                                         *)
(* JavaScript runs one flow of control; an async function runs             *)
(* synchronously up to its next `await` of a network call and is resumed   *)
(* later.  Every action below is one such run segment: it starts with a    *)
(* call or with the answer to a pending request and ends at the next       *)
(* suspension point or at the function's return.  Several invocations may  *)
(* be suspended at once; they are the entries of `task`.                   *)
(***************************************************************************)
EXTENDS Integers, Sequences, FiniteSets

VARIABLES
    store,      \* sessionStorage: one field per key the code uses
    url,        \* query parameters of window.location (code, state, error)
    nav,        \* last assignment to window.location.href (a pending redirect)
    now,        \* Date.now(), in milliseconds
    task,       \* the suspended / finished async invocations, by slot
    auth,       \* AuthProvider's state: isAuthenticated, isLoading, user
    route,      \* the route the router shows
    cb          \* the Callback component's state

svars == <<store, url, nav, now, task>>
avars == <<auth, route, cb>>
vars == <<store, url, nav, now, task, auth, route, cb>>

----------------------------------------------------------------------------
(* Values *)

NULL == "null"

\* The async invocations that may be in flight at the same time: the
\* AuthProvider's mount effect ("chk"), the Callback component's effect ("cb")
\* and two invocations made by any other caller.
Tasks == {"t1", "t2"}
AllTasks == {"chk", "cb"} \cup Tasks

\* The slot of the invocations the application's buttons and route guard make.
UiTasks == {"t1"}

\* Bounds of the model.
MaxTicks == 2          \* the clock advances at most this many times
MaxEffectRuns == 2     \* runs of the Callback component's mount effect
NumTokenSets == 2      \* distinct token responses the provider can issue

\* Program constants.
ExpiryBufferMs == 30000
MsPerSecond == 1000

\* The modelled clock advances by one second at a time; the provider grants
\* a token lifetime (seconds) one second longer than the buffer, so that a
\* token becomes "expired" two clock steps after it was stored.
TickMs == MsPerSecond
ExpiresIn == {31}

\* What generateCodeVerifier and generateState may return to one
\* initiateLogin.
LoginSecrets ==
    {[verifier |-> "v1", state |-> "s1"], [verifier |-> "v2", state |-> "s2"]}
Verifiers == {x.verifier : x \in LoginSecrets}
StateNonces == {x.state : x \in LoginSecrets}
Codes == {"c1"}
ProviderErrors == {"access_denied"}
IdTokens == {"idtok123"}
\* error_description of a non-success answer of the token endpoint; NULL when
\* the body has none (or is not JSON).
ErrorDescriptions == {"Code not valid"}
Subjects == {"u1"}

\* A UserInfo answer is identified by its `sub` claim; "" is an answer
\* without a subject.
UserInfos == Subjects \cup {""}

TokenResponses ==
    [n : 1..NumTokenSets, expires_in : ExpiresIn, id_token : IdTokens \cup {NULL}]

access_token(tokens) == <<"access_token", tokens.n>>
refresh_token(tokens) == <<"refresh_token", tokens.n>>

NoToken == <<>>
NoTokens == [n |-> 0, expires_in |-> 0, id_token |-> NULL]

\* generateCodeChallenge: base64url(SHA-256(verifier)), an injective image of
\* the verifier that is not the verifier.
generateCodeChallenge(verifier) == <<"S256", verifier>>

----------------------------------------------------------------------------
(* Number <-> string, as (Date.now() + ...).toString() and parseInt do.     *)

RECURSIVE toString(_)
toString(n) ==
    IF n < 10 THEN <<n>> ELSE Append(toString(n \div 10), n % 10)

RECURSIVE parseInt(_)
parseInt(s) ==
    IF Len(s) = 0 THEN 0
    ELSE 10 * parseInt(SubSeq(s, 1, Len(s) - 1)) + s[Len(s)]

----------------------------------------------------------------------------
(* Session Store *)

EmptyStore ==
    [code_verifier |-> NULL, oauth_state |-> NULL,
     access_token |-> NoToken, refresh_token |-> NoToken,
     token_expires_at |-> <<>>, id_token |-> NULL]

storeTokens(s, tokens, t) ==
    [s EXCEPT !.access_token = access_token(tokens),
              !.refresh_token = refresh_token(tokens),
              !.token_expires_at = toString(t + tokens.expires_in * MsPerSecond),
              !.id_token = IF tokens.id_token # NULL THEN tokens.id_token ELSE @]

\* A clearTokens that forgets the access token.
clearTokens_keepsAccessToken(s) ==
    [s EXCEPT !.refresh_token = NoToken, !.token_expires_at = <<>>]

\* A clearTokens that forgets the refresh token.
clearTokens_keepsRefreshToken(s) ==
    [s EXCEPT !.access_token = NoToken, !.token_expires_at = <<>>]

clearTokens(s) ==
    [s EXCEPT !.access_token = NoToken,
              !.refresh_token = NoToken,
              !.token_expires_at = <<>>]

getStoredAccessToken(s) == s.access_token
getStoredRefreshToken(s) == s.refresh_token

\* An isTokenExpired without the 30 second buffer.
isTokenExpired_noBuffer(s, t) ==
    IF s.token_expires_at = <<>> THEN TRUE
    ELSE t > parseInt(s.token_expires_at)

isTokenExpired(s, t) ==
    IF s.token_expires_at = <<>> THEN TRUE
    ELSE t > parseInt(s.token_expires_at) - ExpiryBufferMs

\* handleCallback's "clean up temporary data"
removePkce(s) == [s EXCEPT !.code_verifier = NULL, !.oauth_state = NULL]

----------------------------------------------------------------------------
(* Location *)

NoParams == [code |-> NULL, state |-> NULL, error |-> NULL]

\* The query parameters handleCallback reads.  NULL is a parameter the code
\* takes as missing: an absent one (get returns null) or one with an empty
\* value, which the code's truthiness tests treat alike.
UrlParams ==
    [code : Codes \cup {NULL}, state : StateNonces \cup {NULL},
     error : ProviderErrors \cup {NULL}]

NoNav == [to |-> "none", state |-> NULL, code_challenge |-> <<>>,
          code_challenge_method |-> NULL, id_token_hint |-> NULL,
          post_logout_redirect_uri |-> NULL]

authUrl(state, codeChallenge) ==
    [NoNav EXCEPT !.to = "auth", !.state = state,
                  !.code_challenge = codeChallenge,
                  !.code_challenge_method = "S256"]

logoutUrl(idToken) ==
    [NoNav EXCEPT !.to = "logout",
                  !.id_token_hint = idToken,
                  !.post_logout_redirect_uri = "origin"]

----------------------------------------------------------------------------
(* Tasks *)

\* Error messages of the Auth Service, by the spec's error kind.
ProviderDenied == "Authentication failed"
MalformedCallback == "Missing authorization code or state parameter"
CsrfMismatch == "Invalid state parameter - possible CSRF attack"
MissingVerifier == "Code verifier not found"
TokenExchangeFailed == "Failed to exchange authorization code for tokens"
UserInfoFailed == "Failed to fetch user information"
NoRefreshToken == "No refresh token available"
RefreshInvalid == "Failed to refresh access token"
InitiateFailed == "Failed to initiate authentication"
RevokeFailed == "Failed to revoke refresh token"
StorageDenied == "SecurityError"

IdleTask ==
    [op |-> "none", pc |-> "idle", caller |-> "none",
     err |-> NULL,            \* the last error raised inside the invocation
     threw |-> FALSE,         \* whether the invocation ended by throwing
     ok |-> FALSE,            \* validateToken's result
     user |-> NULL,           \* the UserInfo returned / fetched
     tokens |-> NoTokens,     \* the TokenResponse received / returned
     code |-> NULL,           \* handleCallback: the code sent to the provider
     verifier |-> NULL,       \* initiateLogin / exchange: the code verifier
     state |-> NULL,          \* initiateLogin: the generated state
     refreshToken |-> NoToken,\* the refresh token sent (refresh, revoke)
     accessToken |-> NoToken, \* the bearer token of the last userinfo request
     idToken |-> NULL,        \* logout: the ID token read at its start
     nToken |-> 0,            \* code-exchange requests sent by this invocation
     nUserInfo |-> 0,         \* userinfo requests sent by this invocation
     nRefresh |-> 0,          \* refresh requests sent by this invocation
     answer |-> NULL,         \* the answer to the invocation's refresh request
     description |-> NULL,    \* error_description of a refused code exchange
     at |-> 0,                \* Date.now() as read by storeTokens / isTokenExpired
     length |-> 0,            \* generateCodeVerifier: the requested length
     settled |-> FALSE]       \* whether the caller's continuation has run

\* A slot is free for a new invocation when it holds none, or a finished one
\* whose caller has nothing left to do with the result.
Free(t) ==
    \/ task[t].pc = "idle"
    \/ task[t].pc = "done" /\ (task[t].caller \in {"none", "login"} \/ task[t].settled)

Begin(op, caller) == [IdleTask EXCEPT !.op = op, !.caller = caller]

Return(r) == [r EXCEPT !.pc = "done"]

\* What is left of a finished invocation once its caller has taken the result.
Settled(r) ==
    [IdleTask EXCEPT !.op = r.op, !.caller = r.caller, !.pc = "done",
                     !.threw = r.threw, !.settled = TRUE]
Throw(r, e) == [r EXCEPT !.pc = "done", !.err = e, !.threw = TRUE]

----------------------------------------------------------------------------
(* AuthService.initiateLogin *)

initiateLogin(t, caller) ==
    /\ \E x \in LoginSecrets :
          task' = [task EXCEPT ![t] =
                      [Begin("initiateLogin", caller) EXCEPT
                          !.pc = "generateCodeChallenge",
                          !.verifier = x.verifier, !.state = x.state]]
    /\ UNCHANGED <<store, url, nav, now>>

\* An initiateLogin that redirects without persisting verifier and state.
initiateLogin_challenge_notPersisted(t) ==
    /\ task[t].op = "initiateLogin" /\ task[t].pc = "generateCodeChallenge"
    /\ nav' = authUrl(task[t].state, generateCodeChallenge(task[t].verifier))
    /\ task' = [task EXCEPT ![t] = Return(@)]
    /\ UNCHANGED <<store, url, now>>

\* An initiateLogin that keeps a verifier that is already persisted.
initiateLogin_challenge_keepsVerifier(t) ==
    /\ task[t].op = "initiateLogin" /\ task[t].pc = "generateCodeChallenge"
    /\ \E digestOk \in BOOLEAN :
          IF digestOk
          THEN /\ store' = [store EXCEPT
                               !.code_verifier =
                                   IF @ = NULL THEN task[t].verifier ELSE @,
                               !.oauth_state = task[t].state]
               /\ nav' = authUrl(task[t].state,
                                 generateCodeChallenge(task[t].verifier))
               /\ task' = [task EXCEPT ![t] = Return(@)]
          ELSE /\ task' = [task EXCEPT ![t] = Throw(@, InitiateFailed)]
               /\ UNCHANGED <<store, nav>>
    /\ UNCHANGED <<url, now>>

\* generateCodeChallenge settles: the digest either resolves or rejects.
initiateLogin_challenge(t) ==
    /\ task[t].op = "initiateLogin" /\ task[t].pc = "generateCodeChallenge"
    /\ \E digestOk \in BOOLEAN :
          IF digestOk
          THEN /\ store' = [store EXCEPT !.code_verifier = task[t].verifier,
                                         !.oauth_state = task[t].state]
               /\ nav' = authUrl(task[t].state,
                                 generateCodeChallenge(task[t].verifier))
               /\ task' = [task EXCEPT ![t] = Return(@)]
          ELSE /\ task' = [task EXCEPT ![t] = Throw(@, InitiateFailed)]
               /\ UNCHANGED <<store, nav>>
    /\ UNCHANGED <<url, now>>

----------------------------------------------------------------------------
(* AuthService.handleCallback, with exchangeCodeForTokens and getUserInfo *)

\* A handleCallback that skips the comparison with the stored state.
handleCallbackHead_noStateCheck(r) ==
    IF url.error # NULL THEN Throw(r, ProviderDenied)
    ELSE IF url.code = NULL \/ url.state = NULL THEN Throw(r, MalformedCallback)
    ELSE IF store.code_verifier = NULL THEN Throw(r, MissingVerifier)
    ELSE [r EXCEPT !.pc = "exchangeCodeForTokens",
                   !.code = url.code,
                   !.verifier = store.code_verifier,
                   !.nToken = @ + 1]

\* A handleCallback that compares the state before it looks at the error
\* parameter and at the presence of code and state.
handleCallbackHead_stateCheckFirst(r) ==
    IF store.oauth_state # url.state THEN Throw(r, CsrfMismatch)
    ELSE IF url.error # NULL THEN Throw(r, ProviderDenied)
    ELSE IF url.code = NULL \/ url.state = NULL THEN Throw(r, MalformedCallback)
    ELSE IF store.code_verifier = NULL THEN Throw(r, MissingVerifier)
    ELSE [r EXCEPT !.pc = "exchangeCodeForTokens",
                   !.code = url.code,
                   !.verifier = store.code_verifier,
                   !.nToken = @ + 1]

\* The synchronous head of handleCallback: the three checks, then the head of
\* exchangeCodeForTokens up to its fetch.
handleCallbackHead(r) ==
    IF url.error # NULL THEN Throw(r, ProviderDenied)
    ELSE IF url.code = NULL \/ url.state = NULL THEN Throw(r, MalformedCallback)
    ELSE IF store.oauth_state # url.state THEN Throw(r, CsrfMismatch)
    ELSE IF store.code_verifier = NULL THEN Throw(r, MissingVerifier)
    ELSE [r EXCEPT !.pc = "exchangeCodeForTokens",
                   !.code = url.code,
                   !.verifier = store.code_verifier,
                   !.nToken = @ + 1]

handleCallback(t, caller) ==
    /\ task' = [task EXCEPT ![t] =
                   handleCallbackHead(Begin("handleCallback", caller))]
    /\ UNCHANGED <<store, url, nav, now>>

\* The error exchangeCodeForTokens throws inside its try block on a
\* non-success answer: the provider's description, else the status text.
TokenExchangeRejected(description) ==
    "Token exchange failed: "
        \o (IF description # NULL THEN description ELSE "Bad Request")

\* The catch block of exchangeCodeForTokens: whatever was thrown inside the
\* try block is logged and replaced.
exchangeCodeForTokens_catch(error) == TokenExchangeFailed

\* A handleCallback that stores the tokens as soon as they are exchanged.
handleCallback_exchanged_storesEarly(t) ==
    /\ task[t].op = "handleCallback" /\ task[t].pc = "exchangeCodeForTokens"
    /\ \E ok \in BOOLEAN, tokens \in TokenResponses,
          description \in ErrorDescriptions \cup {NULL} :
          IF ok
          THEN /\ task' = [task EXCEPT ![t] =
                              [@ EXCEPT !.pc = "getUserInfo",
                                        !.tokens = tokens,
                                        !.accessToken = access_token(tokens),
                                        !.nUserInfo = @ + 1]]
               /\ store' = storeTokens(store, tokens, now)
          ELSE /\ task' = [task EXCEPT ![t] =
                              Throw([@ EXCEPT !.description = description],
                                    exchangeCodeForTokens_catch(
                                        TokenExchangeRejected(description)))]
               /\ UNCHANGED store
    /\ UNCHANGED <<url, nav, now>>

\* The token endpoint answers the code exchange: a success with a token
\* response, a non-success status with or without an error description, or
\* (as a non-success without description) a failed fetch.
handleCallback_exchanged(t) ==
    /\ task[t].op = "handleCallback" /\ task[t].pc = "exchangeCodeForTokens"
    /\ \E ok \in BOOLEAN, tokens \in TokenResponses,
          description \in ErrorDescriptions \cup {NULL} :
          task' = [task EXCEPT ![t] =
                      IF ok
                      THEN [@ EXCEPT !.pc = "getUserInfo",
                                     !.tokens = tokens,
                                     !.accessToken = access_token(tokens),
                                     !.nUserInfo = @ + 1]
                      ELSE Throw([@ EXCEPT !.description = description],
                                 exchangeCodeForTokens_catch(
                                     TokenExchangeRejected(description)))]
    /\ UNCHANGED <<store, url, nav, now>>

\* A handleCallback that leaves the query parameters in the location.
handleCallback_userInfo_keepsParams(t) ==
    /\ task[t].op = "handleCallback" /\ task[t].pc = "getUserInfo"
    /\ \E ok \in BOOLEAN, userInfo \in UserInfos :
          IF ok
          THEN /\ store' = storeTokens(removePkce(store), task[t].tokens, now)
               /\ task' = [task EXCEPT ![t] = Return([@ EXCEPT !.user = userInfo])]
          ELSE /\ task' = [task EXCEPT ![t] = Throw(@, UserInfoFailed)]
               /\ UNCHANGED store
    /\ UNCHANGED <<url, nav, now>>

\* The userinfo endpoint answers; on success the rest of handleCallback runs.
handleCallback_userInfo(t) ==
    /\ task[t].op = "handleCallback" /\ task[t].pc = "getUserInfo"
    /\ \E ok \in BOOLEAN, userInfo \in UserInfos :
          IF ok
          THEN /\ store' = storeTokens(removePkce(store), task[t].tokens, now)
               /\ url' = NoParams
               /\ task' = [task EXCEPT ![t] = Return([@ EXCEPT !.user = userInfo])]
          ELSE /\ task' = [task EXCEPT ![t] = Throw(@, UserInfoFailed)]
               /\ UNCHANGED <<store, url>>
    /\ UNCHANGED <<nav, now>>

----------------------------------------------------------------------------
(* AuthService.refreshToken *)

\* The synchronous head of refreshToken: throws without a stored refresh
\* token, else sends the refresh request.  `pcSent` is where the invocation
\* waits for the answer, `pcThrown` where it goes on after the throw.
refreshTokenHead(r, pcSent, pcThrown) ==
    IF getStoredRefreshToken(store) = NoToken
    THEN [r EXCEPT !.pc = pcThrown, !.err = NoRefreshToken,
                   !.threw = (r.op = "refreshToken")]
    ELSE [r EXCEPT !.pc = pcSent,
                   !.refreshToken = getStoredRefreshToken(store),
                   !.nRefresh = @ + 1]

\* What the token endpoint may answer to a refresh request.
RefreshAnswers == {"ok", "status", "network"}

\* The store after the answer `a` to a refresh request: a success stores the
\* new tokens, a non-success status clears the tokens, a failed fetch (or an
\* unreadable body) leaves the store alone.
refreshTokenStore(s, a, tokens, t) ==
    CASE a = "ok" -> storeTokens(s, tokens, t)
      [] a = "status" -> clearTokens(s)
      [] OTHER -> s

refreshToken(t, caller) ==
    /\ task' = [task EXCEPT ![t] =
                   refreshTokenHead(Begin("refreshToken", caller),
                                    "refreshToken", "done")]
    /\ UNCHANGED <<store, url, nav, now>>

refreshToken_answer(t) ==
    /\ task[t].op = "refreshToken" /\ task[t].pc = "refreshToken"
    /\ \E a \in RefreshAnswers, tokens \in TokenResponses :
          /\ store' = refreshTokenStore(store, a, tokens, now)
          /\ task' = [task EXCEPT ![t] =
                         IF a = "ok"
                         THEN Return([@ EXCEPT !.tokens = tokens, !.answer = a])
                         ELSE Throw([@ EXCEPT !.answer = a], RefreshInvalid)]
    /\ UNCHANGED <<url, nav, now>>

----------------------------------------------------------------------------
(* AuthService.validateToken *)

validateTokenHead(r) ==
    IF getStoredAccessToken(store) = NoToken
    THEN Return([r EXCEPT !.ok = FALSE])
    ELSE [r EXCEPT !.pc = "validateToken.getUserInfo",
                   !.accessToken = getStoredAccessToken(store),
                   !.nUserInfo = @ + 1]

validateToken(t, caller) ==
    /\ task' = [task EXCEPT ![t] =
                   validateTokenHead(Begin("validateToken", caller))]
    /\ UNCHANGED <<store, url, nav, now>>

\* The userinfo answer: success returns !!userInfo.sub; failure enters the
\* catch block, which calls refreshToken.
validateToken_userInfo(t) ==
    /\ task[t].pc = "validateToken.getUserInfo"
    /\ \E ok \in BOOLEAN, userInfo \in UserInfos :
          task' = [task EXCEPT ![t] =
                      IF ok
                      THEN Return([@ EXCEPT !.user = userInfo,
                                            !.ok = (userInfo # "")])
                      ELSE refreshTokenHead(@, "validateToken.refreshToken",
                                            "validateToken.catch")]
    /\ UNCHANGED <<store, url, nav, now>>

\* The refresh answer inside validateToken: success returns true, a failure
\* rejects refreshToken's promise, and the inner catch runs when validateToken
\* is resumed.
validateToken_refreshed(t) ==
    /\ task[t].pc = "validateToken.refreshToken"
    /\ \E a \in RefreshAnswers, tokens \in TokenResponses :
          /\ store' = refreshTokenStore(store, a, tokens, now)
          /\ task' = [task EXCEPT ![t] =
                         IF a = "ok"
                         THEN Return([@ EXCEPT !.tokens = tokens, !.ok = TRUE,
                                               !.answer = a])
                         ELSE [@ EXCEPT !.pc = "validateToken.catch",
                                        !.err = RefreshInvalid,
                                        !.answer = a]]
    /\ UNCHANGED <<url, nav, now>>

\* An inner catch that returns false without clearing the tokens.
validateToken_catch_noClear(t) ==
    /\ task[t].pc = "validateToken.catch"
    /\ task' = [task EXCEPT ![t] = Return([@ EXCEPT !.ok = FALSE])]
    /\ UNCHANGED <<store, url, nav, now>>

\* catch (refreshError) { this.clearTokens(); return false; }
validateToken_catch(t) ==
    /\ task[t].pc = "validateToken.catch"
    /\ store' = clearTokens(store)
    /\ task' = [task EXCEPT ![t] =
                   Return([@ EXCEPT !.ok = FALSE])]
    /\ UNCHANGED <<url, nav, now>>

----------------------------------------------------------------------------
(* AuthService.logout *)

\* A tail of logout that reads the ID token only when it builds the URL.
logoutTail_readsIdTokenLate(t) ==
    /\ store' = clearTokens(store)
    /\ nav' = logoutUrl(store.id_token)

\* The tail of logout: clear the tokens, then redirect to the provider.
logoutTail(t) ==
    /\ store' = clearTokens(store)
    /\ nav' = logoutUrl(task'[t].idToken)

\* logout up to its first await.  Its reads of sessionStorage are outside any
\* try block: when the browser denies the access to the storage, the call
\* raises and logout rejects before it has done anything.
logout(t, caller) ==
    /\ \E denied \in BOOLEAN :
          IF denied
          THEN /\ task' = [task EXCEPT ![t] =
                              Throw(Begin("logout", caller), StorageDenied)]
               /\ UNCHANGED <<store, nav>>
          ELSE /\ task' = [task EXCEPT ![t] =
                              LET r == [Begin("logout", caller) EXCEPT
                                           !.refreshToken = getStoredRefreshToken(store),
                                           !.idToken = store.id_token]
                              IN  IF r.refreshToken # NoToken
                                  THEN [r EXCEPT !.pc = "revoke"]
                                  ELSE Return(r)]
               /\ IF getStoredRefreshToken(store) # NoToken
                  THEN UNCHANGED <<store, nav>>
                  ELSE logoutTail(t)
    /\ UNCHANGED <<url, now>>

\* A logout that raises the failure of its revoke request to the caller.
logout_revoked_raises(t) ==
    /\ task[t].op = "logout" /\ task[t].pc = "revoke"
    /\ \E ok \in BOOLEAN :
          IF ok
          THEN /\ task' = [task EXCEPT ![t] = Return(@)]
               /\ logoutTail(t)
          ELSE /\ task' = [task EXCEPT ![t] = Throw(@, RevokeFailed)]
               /\ UNCHANGED <<store, nav>>
    /\ UNCHANGED <<url, now>>

\* The revoke request settles: fetch resolves (whatever the status), or it
\* rejects and the catch logs the failure.  Either way the tail runs.
logout_revoked(t) ==
    /\ task[t].op = "logout" /\ task[t].pc = "revoke"
    /\ \E ok \in BOOLEAN :
          task' = [task EXCEPT ![t] =
                      Return([@ EXCEPT !.err = IF ok THEN @ ELSE RevokeFailed])]
    /\ logoutTail(t)
    /\ UNCHANGED <<url, now>>

----------------------------------------------------------------------------
(* AuthService.getCurrentUser *)

\* const newAccessToken = getStoredAccessToken(); then getUserInfo's fetch,
\* on the Session Store s.
getCurrentUserFetch(r, s) ==
    IF getStoredAccessToken(s) = NoToken
    THEN Return([r EXCEPT !.user = NULL])
    ELSE [r EXCEPT !.pc = "getCurrentUser.getUserInfo",
                   !.accessToken = getStoredAccessToken(s),
                   !.nUserInfo = @ + 1]

getCurrentUserHead(r) ==
    IF getStoredAccessToken(store) = NoToken
    THEN Return([r EXCEPT !.user = NULL])
    ELSE IF isTokenExpired(store, now)
    THEN LET q == refreshTokenHead(r, "getCurrentUser.refreshToken", "done")
         IN  IF q.pc = "done" THEN [q EXCEPT !.user = NULL] ELSE q
    ELSE getCurrentUserFetch(r, store)

getCurrentUser(t, caller) ==
    /\ task' = [task EXCEPT ![t] =
                   getCurrentUserHead(Begin("getCurrentUser", caller))]
    /\ UNCHANGED <<store, url, nav, now>>

\* A getCurrentUser that, after a successful refresh, goes on with the
\* access token it read before the refresh.
getCurrentUser_refreshed_staleToken(t) ==
    /\ task[t].pc = "getCurrentUser.refreshToken"
    /\ \E a \in RefreshAnswers, tokens \in TokenResponses :
          /\ store' = refreshTokenStore(store, a, tokens, now)
          /\ task' = [task EXCEPT ![t] =
                         IF a = "ok"
                         THEN getCurrentUserFetch(
                                  [@ EXCEPT !.tokens = tokens, !.answer = a],
                                  store)
                         ELSE Return([@ EXCEPT !.user = NULL,
                                               !.err = RefreshInvalid,
                                               !.answer = a])]
    /\ UNCHANGED <<url, nav, now>>

\* The refresh answer inside getCurrentUser.  On success refreshToken stores
\* the tokens and returns, and getCurrentUser is resumed in the same run of
\* the microtask queue: it reads the access token just stored and sends the
\* userinfo request.  On failure the catch returns null.
getCurrentUser_refreshed(t) ==
    /\ task[t].pc = "getCurrentUser.refreshToken"
    /\ \E a \in RefreshAnswers, tokens \in TokenResponses :
          /\ store' = refreshTokenStore(store, a, tokens, now)
          /\ task' = [task EXCEPT ![t] =
                         IF a = "ok"
                         THEN getCurrentUserFetch(
                                  [@ EXCEPT !.tokens = tokens, !.answer = a],
                                  refreshTokenStore(store, a, tokens, now))
                         ELSE Return([@ EXCEPT !.user = NULL,
                                               !.err = RefreshInvalid,
                                               !.answer = a])]
    /\ UNCHANGED <<url, nav, now>>

getCurrentUser_userInfo(t) ==
    /\ task[t].pc = "getCurrentUser.getUserInfo"
    /\ \E ok \in BOOLEAN, userInfo \in UserInfos :
          task' = [task EXCEPT ![t] =
                      IF ok
                      THEN Return([@ EXCEPT !.user = userInfo])
                      ELSE Return([@ EXCEPT !.user = NULL,
                                            !.err = UserInfoFailed])]
    /\ UNCHANGED <<store, url, nav, now>>

----------------------------------------------------------------------------
(* Environment *)

\* Time passes.
Tick ==
    /\ now < MaxTicks * TickMs
    /\ now' = now + TickMs
    /\ UNCHANGED <<store, url, nav, task>>

\* The browser loads the application anew (a redirect back from the provider,
\* a reload, a crafted link): sessionStorage survives, every invocation of the
\* old page is gone, and the query parameters are whatever the link carries.
PageLoad ==
    /\ \E params \in UrlParams : url' = params
    /\ nav' = NoNav
    /\ task' = [t \in AllTasks |-> IdleTask]
    /\ UNCHANGED <<store, now>>

NoAuth == [isAuthenticated |-> FALSE, isLoading |-> TRUE, user |-> NULL]
NoCallback ==
    [hasRun |-> FALSE, error |-> NULL, isProcessing |-> TRUE,
     timer |-> FALSE, effects |-> 0, calls |-> 0]

----------------------------------------------------------------------------
(* The login operations of the Auth Service, called by any caller, also    *)
(* concurrently.                                                           *)

LoginInit ==
    /\ store = EmptyStore
    /\ url = NoParams
    /\ nav = NoNav
    /\ now = 0
    /\ task = [t \in AllTasks |-> IdleTask]
    /\ auth = NoAuth
    /\ route = "/"
    /\ cb = NoCallback

LoginNext ==
    \/ \E t \in Tasks : Free(t) /\ initiateLogin(t, "none") /\ UNCHANGED avars
    \/ \E t \in Tasks : Free(t) /\ handleCallback(t, "none") /\ UNCHANGED avars
    \/ \E t \in Tasks : initiateLogin_challenge(t) /\ UNCHANGED avars
    \/ \E t \in Tasks : handleCallback_exchanged(t) /\ UNCHANGED avars
    \/ \E t \in Tasks : handleCallback_userInfo(t) /\ UNCHANGED avars
    \/ PageLoad /\ UNCHANGED avars

SpecLogin == LoginInit /\ [][LoginNext]_vars

----------------------------------------------------------------------------
(* The session operations of the Auth Service, called by any caller, also  *)
(* concurrently, on the store an earlier login has left.                   *)

SessionStores ==
    {EmptyStore} \cup {storeTokens(EmptyStore, tokens, 0) : tokens \in TokenResponses}

SessionInit ==
    /\ store \in SessionStores
    /\ url = NoParams
    /\ nav = NoNav
    /\ now = 0
    /\ task = [t \in AllTasks |-> IdleTask]
    /\ auth = NoAuth
    /\ route = "/"
    /\ cb = NoCallback

SessionNext ==
    \/ \E t \in Tasks : Free(t) /\ refreshToken(t, "none") /\ UNCHANGED avars
    \/ \E t \in Tasks : Free(t) /\ validateToken(t, "none") /\ UNCHANGED avars
    \/ \E t \in Tasks : Free(t) /\ logout(t, "none") /\ UNCHANGED avars
    \/ \E t \in Tasks : Free(t) /\ getCurrentUser(t, "none") /\ UNCHANGED avars
    \/ \E t \in Tasks : refreshToken_answer(t) /\ UNCHANGED avars
    \/ \E t \in Tasks : validateToken_userInfo(t) /\ UNCHANGED avars
    \/ \E t \in Tasks : validateToken_refreshed(t) /\ UNCHANGED avars
    \/ \E t \in Tasks : validateToken_catch(t) /\ UNCHANGED avars
    \/ \E t \in Tasks : logout_revoked(t) /\ UNCHANGED avars
    \/ \E t \in Tasks : getCurrentUser_refreshed(t) /\ UNCHANGED avars
    \/ \E t \in Tasks : getCurrentUser_userInfo(t) /\ UNCHANGED avars
    \/ Tick /\ UNCHANGED avars

SpecSession == SessionInit /\ [][SessionNext]_vars

----------------------------------------------------------------------------
(* The application: AuthProvider, Callback, ProtectedRoute, Login, Dashboard *)

Routes == {"/login", "/callback", "/dashboard"}

\* AuthProvider's mount effect calls checkAuthStatus, which sets isLoading
\* and runs validateToken up to its first await.
MountedTasks ==
    [t \in AllTasks |->
        IF t = "chk"
        THEN validateTokenHead(Begin("validateToken", "checkAuthStatus"))
        ELSE IdleTask]

AppInit ==
    /\ store = EmptyStore
    /\ url = NoParams
    /\ nav = NoNav
    /\ now = 0
    /\ route \in Routes
    /\ auth = NoAuth
    /\ cb = NoCallback
    /\ task = MountedTasks

\* The browser loads the application on route r (a redirect back from the
\* provider, a reload, a link): sessionStorage survives, the React tree is
\* built anew and AuthProvider's mount effect runs.
AppLoad ==
    /\ \E r \in Routes, params \in UrlParams :
          /\ (r # "/callback" => params = NoParams)
          /\ route' = r
          /\ url' = params
    /\ nav' = NoNav
    /\ auth' = NoAuth
    /\ cb' = NoCallback
    /\ task' = MountedTasks
    /\ UNCHANGED <<store, now>>

Unauthenticated(a) == [a EXCEPT !.isAuthenticated = FALSE, !.user = NULL]

\* A checkAuthStatus whose else branch does not reach setIsLoading(false).
checkAuthStatus_validated_staysLoading ==
    /\ task["chk"].op = "validateToken" /\ task["chk"].pc = "done"
    /\ ~task["chk"].settled
    /\ IF ~task["chk"].threw /\ task["chk"].ok
       THEN /\ task' = [task EXCEPT !["chk"] =
                           getCurrentUserHead(Begin("getCurrentUser",
                                                    "checkAuthStatus"))]
            /\ UNCHANGED auth
       ELSE /\ auth' = Unauthenticated(auth)
            /\ task' = [task EXCEPT !["chk"] = Settled(@)]
    /\ UNCHANGED <<store, url, nav, now, route, cb>>

\* checkAuthStatus after `await authService.validateToken()`.
checkAuthStatus_validated ==
    /\ task["chk"].op = "validateToken" /\ task["chk"].pc = "done"
    /\ ~task["chk"].settled
    /\ IF ~task["chk"].threw /\ task["chk"].ok
       THEN /\ task' = [task EXCEPT !["chk"] =
                           getCurrentUserHead(Begin("getCurrentUser",
                                                    "checkAuthStatus"))]
            /\ UNCHANGED auth
       ELSE /\ auth' = [Unauthenticated(auth) EXCEPT !.isLoading = FALSE]
            /\ task' = [task EXCEPT !["chk"] = Settled(@)]
    /\ UNCHANGED <<store, url, nav, now, route, cb>>

\* checkAuthStatus after `await authService.getCurrentUser()`.
checkAuthStatus_user ==
    /\ task["chk"].op = "getCurrentUser" /\ task["chk"].pc = "done"
    /\ ~task["chk"].settled
    /\ auth' = IF task["chk"].threw
               THEN [Unauthenticated(auth) EXCEPT !.isLoading = FALSE]
               ELSE [isAuthenticated |-> TRUE, isLoading |-> FALSE,
                     user |-> task["chk"].user]
    /\ task' = [task EXCEPT !["chk"] = Settled(@)]
    /\ UNCHANGED <<store, url, nav, now, route, cb>>

\* A Callback effect that lacks the hasRun guard.
Callback_effect_unguarded ==
    /\ route = "/callback"
    /\ cb.effects < MaxEffectRuns
    /\ Free("cb")
    /\ cb' = [cb EXCEPT !.effects = @ + 1, !.hasRun = TRUE,
                        !.isProcessing = TRUE, !.calls = @ + 1]
    /\ task' = [task EXCEPT !["cb"] =
                   handleCallbackHead(Begin("handleCallback", "Callback"))]
    /\ UNCHANGED <<store, url, nav, now, auth, route>>

\* Callback's effect: guarded by the hasRun ref, it calls
\* authService.handleCallback().
Callback_effect ==
    /\ route = "/callback"
    /\ cb.effects < MaxEffectRuns
    /\ IF cb.hasRun
       THEN /\ cb' = [cb EXCEPT !.effects = @ + 1]
            /\ UNCHANGED task
       ELSE /\ cb' = [cb EXCEPT !.effects = @ + 1, !.hasRun = TRUE,
                                !.isProcessing = TRUE, !.calls = @ + 1]
            /\ task' = [task EXCEPT !["cb"] =
                           handleCallbackHead(Begin("handleCallback", "Callback"))]
    /\ UNCHANGED <<store, url, nav, now, auth, route>>

\* A Callback whose catch block shows the message but sets no timer.
Callback_settled_noTimer ==
    /\ task["cb"].op = "handleCallback" /\ task["cb"].pc = "done"
    /\ ~task["cb"].settled
    /\ task' = [task EXCEPT !["cb"] = Settled(@)]
    /\ IF task["cb"].threw
       THEN /\ cb' = [cb EXCEPT !.error = task["cb"].err,
                                !.isProcessing = FALSE]
            /\ UNCHANGED <<route, url>>
       ELSE /\ cb' = [cb EXCEPT !.isProcessing = FALSE]
            /\ route' = "/dashboard"
            /\ url' = NoParams
    /\ UNCHANGED <<store, nav, now, auth>>

\* Callback after `await authService.handleCallback()`: to the dashboard on
\* success; on failure the message is shown and a timer set.
Callback_settled ==
    /\ task["cb"].op = "handleCallback" /\ task["cb"].pc = "done"
    /\ ~task["cb"].settled
    /\ task' = [task EXCEPT !["cb"] = Settled(@)]
    /\ IF task["cb"].threw
       THEN /\ cb' = [cb EXCEPT !.error = task["cb"].err, !.timer = TRUE,
                                !.isProcessing = FALSE]
            /\ UNCHANGED <<route, url>>
       ELSE /\ cb' = [cb EXCEPT !.isProcessing = FALSE]
            /\ route' = "/dashboard"
            /\ url' = NoParams
    /\ UNCHANGED <<store, nav, now, auth>>

\* The timer of the failure branch fires.
Callback_timeout ==
    /\ cb.timer
    /\ cb' = [cb EXCEPT !.timer = FALSE]
    /\ route' = "/login"
    /\ url' = NoParams
    /\ UNCHANGED <<store, nav, now, auth, task>>

\* ProtectedRoute's effect: not loading and not authenticated, so login().
ProtectedRoute_effect(t) ==
    /\ route = "/dashboard"
    /\ ~auth.isLoading /\ ~auth.isAuthenticated
    /\ Free(t)
    /\ initiateLogin(t, "login")
    /\ UNCHANGED avars

\* Login's effect: navigate to the dashboard once authenticated.
Login_effect ==
    /\ route = "/login"
    /\ auth.isAuthenticated
    /\ route' = "/dashboard"
    /\ url' = NoParams
    /\ UNCHANGED <<store, nav, now, auth, task, cb>>

\* Login's button.
Login_handleLogin(t) ==
    /\ route = "/login"
    /\ ~auth.isLoading
    /\ Free(t)
    /\ initiateLogin(t, "login")
    /\ UNCHANGED avars

\* The dashboard is shown inside ProtectedRoute.
DashboardShown ==
    route = "/dashboard" /\ ~auth.isLoading /\ auth.isAuthenticated

\* Dashboard's logout button: AuthProvider.logout calls authService.logout().
Dashboard_handleLogout(t) ==
    /\ DashboardShown
    /\ Free(t)
    /\ logout(t, "logout")
    /\ UNCHANGED avars

\* An AuthProvider.logout that leaves the session state alone when
\* authService.logout() has failed.
logout_settled_keepsStateOnFailure(t) ==
    /\ task[t].op = "logout" /\ task[t].pc = "done"
    /\ task[t].caller = "logout" /\ ~task[t].settled
    /\ auth' = IF task[t].threw THEN auth ELSE Unauthenticated(auth)
    /\ task' = [task EXCEPT ![t] = Settled(@)]
    /\ UNCHANGED <<store, url, nav, now, route, cb>>

\* AuthProvider.logout after `await authService.logout()`: the try and the
\* catch branch set the same state.
logout_settled(t) ==
    /\ task[t].op = "logout" /\ task[t].pc = "done"
    /\ task[t].caller = "logout" /\ ~task[t].settled
    /\ auth' = Unauthenticated(auth)
    /\ task' = [task EXCEPT ![t] = Settled(@)]
    /\ UNCHANGED <<store, url, nav, now, route, cb>>

\* Dashboard's refresh button: AuthProvider.refreshUser calls getCurrentUser().
Dashboard_handleRefreshUser(t) ==
    /\ DashboardShown
    /\ Free(t)
    /\ getCurrentUser(t, "refreshUser")
    /\ UNCHANGED avars

\* A refreshUser that goes through the loading state like checkAuthStatus.
refreshUser_settled_resetsLoading(t) ==
    /\ task[t].op = "getCurrentUser" /\ task[t].pc = "done"
    /\ task[t].caller = "refreshUser" /\ ~task[t].settled
    /\ auth' = IF ~task[t].threw /\ task[t].user # NULL
               THEN [auth EXCEPT !.user = task[t].user, !.isAuthenticated = TRUE]
               ELSE [Unauthenticated(auth) EXCEPT !.isLoading = TRUE]
    /\ task' = [task EXCEPT ![t] = Settled(@)]
    /\ UNCHANGED <<store, url, nav, now, route, cb>>

\* AuthProvider.refreshUser after `await authService.getCurrentUser()`.
refreshUser_settled(t) ==
    /\ task[t].op = "getCurrentUser" /\ task[t].pc = "done"
    /\ task[t].caller = "refreshUser" /\ ~task[t].settled
    /\ auth' = IF ~task[t].threw /\ task[t].user # NULL
               THEN [auth EXCEPT !.user = task[t].user, !.isAuthenticated = TRUE]
               ELSE Unauthenticated(auth)
    /\ task' = [task EXCEPT ![t] = Settled(@)]
    /\ UNCHANGED <<store, url, nav, now, route, cb>>

Next ==
    \/ AppLoad
    \/ checkAuthStatus_validated
    \/ checkAuthStatus_user
    \/ Callback_effect
    \/ Callback_settled
    \/ Callback_timeout
    \/ Login_effect
    \/ \E t \in UiTasks : ProtectedRoute_effect(t)
    \/ \E t \in UiTasks : Login_handleLogin(t)
    \/ \E t \in UiTasks : Dashboard_handleLogout(t)
    \/ \E t \in UiTasks : logout_settled(t)
    \/ \E t \in UiTasks : Dashboard_handleRefreshUser(t)
    \/ \E t \in UiTasks : refreshUser_settled(t)
    \/ \E t \in AllTasks : initiateLogin_challenge(t) /\ UNCHANGED avars
    \/ \E t \in AllTasks : handleCallback_exchanged(t) /\ UNCHANGED avars
    \/ \E t \in AllTasks : handleCallback_userInfo(t) /\ UNCHANGED avars
    \/ \E t \in AllTasks : validateToken_userInfo(t) /\ UNCHANGED avars
    \/ \E t \in AllTasks : validateToken_refreshed(t) /\ UNCHANGED avars
    \/ \E t \in AllTasks : validateToken_catch(t) /\ UNCHANGED avars
    \/ \E t \in AllTasks : logout_revoked(t) /\ UNCHANGED avars
    \/ \E t \in AllTasks : getCurrentUser_refreshed(t) /\ UNCHANGED avars
    \/ \E t \in AllTasks : getCurrentUser_userInfo(t) /\ UNCHANGED avars
    \/ Tick /\ UNCHANGED avars

Spec == AppInit /\ [][Next]_vars

----------------------------------------------------------------------------
(* One activation of the application on the dashboard route, on the store   *)
(* an earlier login has left: no page load ends it, and every request the   *)
(* session check is waiting for is eventually answered.                     *)

ActivationInit ==
    /\ store \in SessionStores
    /\ url = NoParams
    /\ nav = NoNav
    /\ now = 0
    /\ route = "/dashboard"
    /\ auth = NoAuth
    /\ cb = NoCallback
    /\ task = MountedTasks

ActivationNext ==
    \/ checkAuthStatus_validated
    \/ checkAuthStatus_user
    \/ \E t \in UiTasks : ProtectedRoute_effect(t)
    \/ \E t \in UiTasks : Dashboard_handleLogout(t)
    \/ \E t \in UiTasks : logout_settled(t)
    \/ \E t \in UiTasks : Dashboard_handleRefreshUser(t)
    \/ \E t \in UiTasks : refreshUser_settled(t)
    \/ \E t \in AllTasks : initiateLogin_challenge(t) /\ UNCHANGED avars
    \/ \E t \in AllTasks : validateToken_userInfo(t) /\ UNCHANGED avars
    \/ \E t \in AllTasks : validateToken_refreshed(t) /\ UNCHANGED avars
    \/ \E t \in AllTasks : validateToken_catch(t) /\ UNCHANGED avars
    \/ \E t \in AllTasks : logout_revoked(t) /\ UNCHANGED avars
    \/ \E t \in AllTasks : getCurrentUser_refreshed(t) /\ UNCHANGED avars
    \/ \E t \in AllTasks : getCurrentUser_userInfo(t) /\ UNCHANGED avars
    \/ Tick /\ UNCHANGED avars

\* Every request of the session check is answered (or fails), and the
\* continuation of every await of checkAuthStatus is run.
ActivationFairness ==
    /\ WF_vars(checkAuthStatus_validated)
    /\ WF_vars(checkAuthStatus_user)
    /\ WF_vars(validateToken_userInfo("chk") /\ UNCHANGED avars)
    /\ WF_vars(validateToken_refreshed("chk") /\ UNCHANGED avars)
    /\ WF_vars(validateToken_catch("chk") /\ UNCHANGED avars)
    /\ WF_vars(getCurrentUser_refreshed("chk") /\ UNCHANGED avars)
    /\ WF_vars(getCurrentUser_userInfo("chk") /\ UNCHANGED avars)

SpecActivation ==
    ActivationInit /\ [][ActivationNext]_vars /\ ActivationFairness

----------------------------------------------------------------------------
(* One activation on the dashboard route in which the dashboard's buttons   *)
(* are pressed while an earlier press is still being served: two            *)
(* invocations of AuthProvider's logout and refreshUser may overlap.        *)

DashboardNext ==
    \/ checkAuthStatus_validated
    \/ checkAuthStatus_user
    \/ \E t \in Tasks : ProtectedRoute_effect(t)
    \/ \E t \in Tasks : Dashboard_handleLogout(t)
    \/ \E t \in Tasks : logout_settled(t)
    \/ \E t \in Tasks : Dashboard_handleRefreshUser(t)
    \/ \E t \in Tasks : refreshUser_settled(t)
    \/ \E t \in AllTasks : initiateLogin_challenge(t) /\ UNCHANGED avars
    \/ \E t \in AllTasks : validateToken_userInfo(t) /\ UNCHANGED avars
    \/ \E t \in AllTasks : validateToken_refreshed(t) /\ UNCHANGED avars
    \/ \E t \in AllTasks : validateToken_catch(t) /\ UNCHANGED avars
    \/ \E t \in AllTasks : logout_revoked(t) /\ UNCHANGED avars
    \/ \E t \in AllTasks : getCurrentUser_refreshed(t) /\ UNCHANGED avars
    \/ \E t \in AllTasks : getCurrentUser_userInfo(t) /\ UNCHANGED avars
    \/ Tick /\ UNCHANGED avars

SpecDashboard == ActivationInit /\ [][DashboardNext]_vars

----------------------------------------------------------------------------
(* One lifetime of the callback page: the provider has redirected back (or  *)
(* a link was followed) with any query parameters, on a store in which an   *)
(* initiateLogin has or has not persisted verifier and state.  The          *)
(* continuation of the component's await is run and its timer fires.        *)

CallbackStores ==
    {EmptyStore} \cup
    {[EmptyStore EXCEPT !.code_verifier = x.verifier, !.oauth_state = x.state] :
        x \in LoginSecrets}

CallbackInit ==
    /\ store \in CallbackStores
    /\ url \in UrlParams
    /\ nav = NoNav
    /\ now = 0
    /\ route = "/callback"
    /\ auth = NoAuth
    /\ cb = NoCallback
    /\ task = MountedTasks

CallbackNext ==
    \/ checkAuthStatus_validated
    \/ Callback_effect
    \/ Callback_settled
    \/ Callback_timeout
    \/ \E t \in UiTasks : ProtectedRoute_effect(t)
    \/ \E t \in UiTasks : Login_handleLogin(t)
    \/ \E t \in AllTasks : initiateLogin_challenge(t) /\ UNCHANGED avars
    \/ \E t \in AllTasks : handleCallback_exchanged(t) /\ UNCHANGED avars
    \/ \E t \in AllTasks : handleCallback_userInfo(t) /\ UNCHANGED avars

CallbackFairness ==
    /\ WF_vars(Callback_settled)
    /\ WF_vars(Callback_timeout)

SpecCallback == CallbackInit /\ [][CallbackNext]_vars /\ CallbackFairness

----------------------------------------------------------------------------
(* storeTokens and isTokenExpired over lifetimes and clock readings around  *)
(* the buffer boundary.                                                     *)

\* Bounds of the expiry model: the clock makes at most MaxExpiryJumps long
\* steps and, after each, short steps within ExpiryWindowMs milliseconds.
MaxExpiryJumps == 1
ExpiryWindowMs == 2001

\* The long step, the second and the millisecond (all in ms).
ExpiryJumpMs == 269 * MsPerSecond
ExpirySteps == {1, MsPerSecond, ExpiryJumpMs}

\* expires_in of the token responses stored (seconds).
ExpiryLifetimes == {0, 29, 30, 31, 300}
ExpiryResponses == [n : {1}, expires_in : ExpiryLifetimes, id_token : {NULL}]

ExpiryInit ==
    /\ store = EmptyStore
    /\ url = NoParams
    /\ nav = NoNav
    /\ now = 0
    /\ task = [t \in AllTasks |-> IdleTask]
    /\ auth = NoAuth
    /\ route = "/"
    /\ cb = NoCallback

\* Time passes, by a millisecond, a second or the long step.
Expiry_Tick ==
    /\ \E d \in ExpirySteps :
          /\ now + d <= MaxExpiryJumps * ExpiryJumpMs + ExpiryWindowMs
          /\ d < ExpiryJumpMs => (now % ExpiryJumpMs) + d <= ExpiryWindowMs
          /\ d = 1 => now % MsPerSecond = 0
          /\ now' = now + d
    /\ UNCHANGED <<store, url, nav, task>>

\* storeTokens(tokens) is called; slot "t1" keeps the call's arguments.
Expiry_storeTokens ==
    /\ \E tokens \in ExpiryResponses :
          /\ store' = storeTokens(store, tokens, now)
          /\ task' = [task EXCEPT !["t1"] =
                          Return([Begin("storeTokens", "none") EXCEPT
                                     !.tokens = tokens, !.at = now])]
    /\ UNCHANGED <<url, nav, now>>

\* clearTokens() is called.
Expiry_clearTokens ==
    /\ store' = clearTokens(store)
    /\ task' = [task EXCEPT !["t1"] = Return(Begin("clearTokens", "none"))]
    /\ UNCHANGED <<url, nav, now>>

\* isTokenExpired() is called; slot "t2" keeps its result.
Expiry_isTokenExpired ==
    /\ task' = [task EXCEPT !["t2"] =
                    Return([Begin("isTokenExpired", "none") EXCEPT
                               !.ok = isTokenExpired(store, now), !.at = now])]
    /\ UNCHANGED <<store, url, nav, now>>

ExpiryNext ==
    \/ Expiry_Tick /\ UNCHANGED avars
    \/ Expiry_storeTokens /\ UNCHANGED avars
    \/ Expiry_clearTokens /\ UNCHANGED avars
    \/ Expiry_isTokenExpired /\ UNCHANGED avars

SpecExpiry == ExpiryInit /\ [][ExpiryNext]_vars

----------------------------------------------------------------------------
(* generateCodeVerifier over requested lengths and random bytes.            *)

\* Bound: up to this length every sequence of the sampled bytes is tried;
\* beyond it only arrays filled with one byte.
MaxVerifierLength == 3

\* The bytes crypto.getRandomValues may write (a sample of 0..255 around the
\* multiples of the charset's length).
RandomBytes == {0, 25, 26, 51, 52, 61, 62, 65, 66, 131, 132, 255}

\* crypto.getRandomValues fills at most this many bytes in one call; for a
\* longer array it raises QuotaExceededError.
QuotaBytes == 65536
QuotaExceeded == "QuotaExceededError"

\* The lengths requested.
VerifierLengths == 1..MaxVerifierLength \cup {QuotaBytes, QuotaBytes + 1}

RandomValues(length) ==
    IF length <= MaxVerifierLength
    THEN [1..length -> RandomBytes]
    ELSE {[i \in 1..length |-> b] : b \in {0, 255}}

charset ==
    <<"A", "B", "C", "D", "E", "F", "G", "H", "I", "J", "K",
       "L", "M", "N", "O", "P", "Q", "R", "S", "T", "U", "V",
       "W", "X", "Y", "Z", "a", "b", "c", "d", "e", "f", "g",
       "h", "i", "j", "k", "l", "m", "n", "o", "p", "q", "r",
       "s", "t", "u", "v", "w", "x", "y", "z", "0", "1", "2",
       "3", "4", "5", "6", "7", "8", "9", "-", ".", "_", "~">>

\* charset.charAt(i), i counted from 0.
charAt(i) == charset[i + 1]

\* A generateCodeVerifier whose loop stops one character early.
generateCodeVerifier_oneShort(length, randomValues) ==
    [i \in 1..(length - 1) |-> charAt(randomValues[i] % Len(charset))]

\* The string generateCodeVerifier builds from the random bytes.
generateCodeVerifier(length, randomValues) ==
    [i \in 1..length |-> charAt(randomValues[i] % Len(charset))]

PkceInit ==
    /\ store = EmptyStore
    /\ url = NoParams
    /\ nav = NoNav
    /\ now = 0
    /\ task = [t \in AllTasks |-> IdleTask]
    /\ auth = NoAuth
    /\ route = "/"
    /\ cb = NoCallback

\* generateCodeVerifier(length) is called, once; slot "t1" keeps the call.
Pkce_generateCodeVerifier ==
    /\ task["t1"].pc = "idle"
    /\ \E length \in VerifierLengths :
          LET r == [Begin("generateCodeVerifier", "none") EXCEPT
                       !.length = length]
          IN  IF length > QuotaBytes
              THEN task' = [task EXCEPT !["t1"] = Throw(r, QuotaExceeded)]
              ELSE \E randomValues \in RandomValues(length) :
                      task' = [task EXCEPT !["t1"] =
                                  Return([r EXCEPT !.verifier =
                                      generateCodeVerifier(length, randomValues)])]
    /\ UNCHANGED <<store, url, nav, now>>

PkceNext == Pkce_generateCodeVerifier /\ UNCHANGED avars

SpecPkce == PkceInit /\ [][PkceNext]_vars

----------------------------------------------------------------------------
(* Properties *)

\* The step is a call of `op` in slot t.
Calls(t, op) ==
    /\ Free(t)
    /\ task'[t] # task[t]
    /\ task'[t].op = op

\* The step ends the invocation of `op` in slot t.
Finishes(t, op) ==
    /\ task'[t] # task[t]
    /\ task'[t].op = op
    /\ task'[t].pc = "done"

InFlight(t) == task[t].pc \notin {"idle", "done"}

NoPkce(s) == s.code_verifier = NULL /\ s.oauth_state = NULL

NoTokenSet(s) ==
    /\ s.access_token = NoToken
    /\ s.refresh_token = NoToken
    /\ s.token_expires_at = <<>>

\* C1: a handleCallback() called with a code and a state, no error, and a
\* received state that differs from the stored oauth_state (or with none
\* stored) throws the CSRF error in that very step, having sent no token
\* request and no userinfo request, and leaves the Session Store as it was.
C1_StateMismatchRejected ==
    [][\A t \in AllTasks :
          (/\ Calls(t, "handleCallback")
           /\ url.error = NULL /\ url.code # NULL /\ url.state # NULL
           /\ store.oauth_state # url.state)
          => (/\ task'[t].pc = "done"
              /\ task'[t].threw
              /\ task'[t].err = CsrfMismatch
              /\ task'[t].nToken = 0
              /\ task'[t].nUserInfo = 0
              /\ task'[t].tokens = NoTokens
              /\ store' = store)]_vars

\* A handleCallback() has failed with the CSRF error against a stored state.
C1_Witness ==
    \E t \in AllTasks :
        /\ task[t].op = "handleCallback" /\ task[t].pc = "done"
        /\ task[t].err = CsrfMismatch
        /\ store.oauth_state # NULL
        /\ url.state # NULL /\ url.state # store.oauth_state

\* C2: of two handleCallback() invocations that overlap in time and carry the
\* same authorization code, at most one has a token-exchange request
\* outstanding (together they send exactly one).
C2_SingleExchange ==
    \A t1, t2 \in AllTasks :
        (/\ t1 # t2
         /\ task[t1].op = "handleCallback" /\ InFlight(t1)
         /\ task[t2].op = "handleCallback" /\ InFlight(t2)
         /\ task[t1].code = task[t2].code)
        => task[t1].nToken + task[t2].nToken = 1

\* C4: when a handleCallback() that got past the state comparison ends, by
\* success or by any later failure, the Session Store holds neither the
\* code verifier nor the state.
C4_PkceDeletedPastStateCheck ==
    [][\A t \in AllTasks :
          (/\ Finishes(t, "handleCallback")
           /\ task'[t].err \notin {ProviderDenied, MalformedCallback, CsrfMismatch})
          => NoPkce(store')]_vars

\* C5: the verifier/state pair is in the Session Store only while a login is
\* in flight; in particular, when a handleCallback() ends on a page on which
\* no initiateLogin() was called, the pair is absent.
\* (Stated for a callback that has sent the authorization code to the
\* provider: whatever the answer, that login is over.)
C5_PkceOnlyWhileLoginInFlight ==
    [][\A t \in AllTasks :
          (/\ Finishes(t, "handleCallback")
           /\ task'[t].nToken = 1
           /\ \A u \in AllTasks : task'[u].op # "initiateLogin")
          => NoPkce(store')]_vars

\* C7: when logout() reaches its redirect, the Session Store holds no part of
\* the TokenSet: no access token, no refresh token, no expiry, no ID token.
C7_LogoutClearsTokenSet ==
    [][\A t \in AllTasks :
          (Finishes(t, "logout") /\ ~task'[t].threw)
          => (NoTokenSet(store') /\ store'.id_token = NULL)]_vars

\* The step delivers the answer to the refresh request of slot t.
RefreshAnswered(t) ==
    /\ task[t].pc \in {"refreshToken", "validateToken.refreshToken",
                       "getCurrentUser.refreshToken"}
    /\ task'[t] # task[t]

\* C8: when the provider answers a refresh request with a non-success status,
\* refreshToken() fails and right after that step the Session Store holds no
\* access token and no refresh token.
C8_RefreshFailureClearsTokens ==
    [][\A t \in AllTasks :
          (RefreshAnswered(t) /\ task'[t].answer = "status")
          => (/\ task'[t].err = RefreshInvalid
              /\ (task'[t].op = "refreshToken"
                    => task'[t].pc = "done" /\ task'[t].threw)
              /\ store'.access_token = NoToken
              /\ store'.refresh_token = NoToken)]_vars

\* A refreshToken() has been refused by the provider.
C8_Witness ==
    \E t \in AllTasks :
        /\ task[t].op = "refreshToken" /\ task[t].pc = "done"
        /\ task[t].answer = "status" /\ task[t].threw
        /\ task[t].refreshToken # NoToken

\* C9: validateToken() without a stored access token returns false and sends
\* nothing; otherwise it sends one userinfo request, and a refresh request
\* only after that fetch failed, never a second one; it returns true after a
\* successful refresh, and false with the tokens cleared after a failed one.
C9_ValidateTokenPolicy ==
    [][\A t \in AllTasks :
          /\ (Calls(t, "validateToken") /\ getStoredAccessToken(store) = NoToken)
             => (/\ task'[t].pc = "done" /\ ~task'[t].ok /\ ~task'[t].threw
                 /\ task'[t].nUserInfo = 0 /\ task'[t].nRefresh = 0)
          /\ (Calls(t, "validateToken") /\ getStoredAccessToken(store) # NoToken)
             => (/\ task'[t].pc = "validateToken.getUserInfo"
                 /\ task'[t].nUserInfo = 1 /\ task'[t].nRefresh = 0)
          /\ task'[t].op = "validateToken"
             => (/\ task'[t].nUserInfo <= 1 /\ task'[t].nRefresh <= 1
                 /\ (task'[t].nRefresh = 1
                       => (/\ task'[t].nUserInfo = 1
                           /\ task'[t].user = NULL
                           /\ task'[t].pc # "validateToken.getUserInfo")))
          /\ (Finishes(t, "validateToken")
                /\ task[t].pc = "validateToken.refreshToken")
             => (task'[t].answer = "ok" /\ task'[t].ok /\ ~task'[t].threw)
          /\ (Finishes(t, "validateToken") /\ task'[t].err # NULL
                /\ task'[t].answer # "ok")
             => (/\ ~task'[t].ok /\ ~task'[t].threw
                 /\ NoTokenSet(store'))]_vars

\* A validateToken() has returned false after its one refresh request failed
\* without an answer from the provider.
C9_Witness ==
    \E t \in AllTasks :
        /\ task[t].op = "validateToken" /\ task[t].pc = "done"
        /\ task[t].nUserInfo = 1 /\ task[t].nRefresh = 1
        /\ task[t].answer = "network" /\ ~task[t].ok
        /\ NoTokenSet(store)

\* C3: within one page lifetime, however often the Callback component's
\* effect runs, the component calls authService.handleCallback() at most
\* once, and so at most one token request carries the delivered code.
C3_CallbackRunsOnce ==
    /\ cb.calls <= 1
    /\ task["cb"].nToken <= 1
    /\ (cb.calls = 0 => task["cb"].pc = "idle")
    /\ \A t \in AllTasks \ {"cb"} : task[t].op # "handleCallback"

\* The effect has run at least twice, the one handleCallback() has failed
\* after its token request and the component has routed back to login.
C3_Witness ==
    /\ cb.effects >= 2
    /\ cb.calls = 1
    /\ cb.error = TokenExchangeFailed
    /\ task["cb"].settled
    /\ route = "/login"

\* The step ends checkAuthStatus (the on-activation session check).
CheckAuthStatusEnds == ~task["chk"].settled /\ task'["chk"].settled

\* The step ends a refreshUser() made from slot t.
RefreshUserEnds(t) ==
    task[t].caller = "refreshUser" /\ ~task[t].settled /\ task'[t].settled

\* C6: when the session check or a refreshUser() ends with isAuthenticated
\* true, the user is a profile and an access token is stored.
C6_AuthenticatedHasUserAndToken ==
    [][(CheckAuthStatusEnds \/ \E t \in UiTasks : RefreshUserEnds(t))
          => (auth'.isAuthenticated
                => (auth'.user # NULL
                    /\ getStoredAccessToken(store') # NoToken))]_vars

\* C10: validateToken() and getCurrentUser() never throw, and a session check
\* whose last call ended "not authenticated" (false, or no user) ends
\* Unauthenticated.
C10_ErrorsEndUnauthenticated ==
    [][/\ \A t \in AllTasks :
             task'[t].op \in {"validateToken", "getCurrentUser"}
             => ~task'[t].threw
       /\ (/\ CheckAuthStatusEnds
           /\ \/ task["chk"].op = "validateToken" /\ ~task["chk"].ok
              \/ task["chk"].op = "getCurrentUser" /\ task["chk"].user = NULL)
          => (/\ ~auth'.isAuthenticated
              /\ auth'.user = NULL
              /\ ~auth'.isLoading)]_vars

\* C11: a logout() whose revoke request failed does not throw, has removed the
\* access token, the refresh token and the expiry from the Session Store and
\* has redirected to the provider's logout endpoint.
C11_RevokeFailureDoesNotBlockLogout ==
    [][\A t \in AllTasks :
          (Finishes(t, "logout") /\ task'[t].err = RevokeFailed)
          => (/\ ~task'[t].threw
              /\ NoTokenSet(store')
              /\ nav'.to = "logout")]_vars

\* A logout() that sent a refresh token to be revoked has ended after the
\* revoke request failed.
C11_Witness ==
    \E t \in AllTasks :
        /\ task[t].op = "logout" /\ task[t].pc = "done"
        /\ task[t].err = RevokeFailed
        /\ task[t].refreshToken # NoToken
        /\ nav.to = "logout"

\* The step ends an AuthProvider.logout() made from slot t.
LogoutEnds(t) ==
    task[t].caller = "logout" /\ ~task[t].settled /\ task'[t].settled

\* C12: AuthProvider.logout() ends with isAuthenticated false and no user,
\* when authService.logout() completed and when it failed.
C12_LogoutEndsUnauthenticated ==
    [][\A t \in UiTasks :
          LogoutEnds(t) => (~auth'.isAuthenticated /\ auth'.user = NULL)]_vars

\* An AuthProvider.logout() has ended after authService.logout() failed.
C12_Witness ==
    \E t \in UiTasks :
        /\ task[t].op = "logout" /\ task[t].caller = "logout"
        /\ task[t].settled /\ task[t].threw
        /\ ~auth.isAuthenticated /\ auth.user = NULL

\* C13: handleCallback() checks in a fixed order.  With an error parameter it
\* throws the provider's denial whatever code and state are; else without a
\* code or without a state it throws the malformed-callback error whatever
\* is stored; only a call with no error, a code and a state can end with the
\* CSRF error.  Each of the three ends in the calling step with no request
\* sent and the Session Store as it was.
C13_CallbackCheckOrder ==
    [][\A t \in AllTasks :
          Calls(t, "handleCallback") =>
            /\ url.error # NULL => task'[t].err = ProviderDenied
            /\ (url.error = NULL /\ (url.code = NULL \/ url.state = NULL))
               => task'[t].err = MalformedCallback
            /\ task'[t].err = CsrfMismatch
               => (url.error = NULL /\ url.code # NULL /\ url.state # NULL)
            /\ task'[t].err \in {ProviderDenied, MalformedCallback, CsrfMismatch}
               => (/\ task'[t].pc = "done" /\ task'[t].threw
                   /\ task'[t].nToken = 0 /\ task'[t].nUserInfo = 0
                   /\ store' = store)]_vars

\* A handleCallback() has thrown the provider's denial although a code came
\* with it and the received state differs from the stored one.
C13_Witness ==
    \E t \in AllTasks :
        /\ task[t].op = "handleCallback" /\ task[t].pc = "done"
        /\ task[t].err = ProviderDenied
        /\ url.error # NULL /\ url.code # NULL /\ url.state # NULL
        /\ store.oauth_state # NULL /\ store.oauth_state # url.state

\* C14: when initiateLogin() redirects, the authorization URL carries
\* code_challenge_method=S256, the state that is then stored as oauth_state
\* and the challenge derived from the verifier that is then stored as
\* code_verifier: both are in the Session Store when the redirect is made.
C14_AuthUrlMatchesPersistedPkce ==
    [][\A t \in AllTasks :
          (Finishes(t, "initiateLogin") /\ ~task'[t].threw)
          => (/\ nav'.to = "auth"
              /\ nav'.code_challenge_method = "S256"
              /\ store'.oauth_state # NULL
              /\ store'.code_verifier # NULL
              /\ nav'.state = store'.oauth_state
              /\ nav'.code_challenge
                    = generateCodeChallenge(store'.code_verifier))]_vars

\* An initiateLogin() has redirected after another one had already persisted
\* a different verifier and state.
C14_Witness ==
    \E t, u \in AllTasks :
        /\ t # u
        /\ task[t].op = "initiateLogin" /\ task[t].pc = "done" /\ ~task[t].threw
        /\ task[u].op = "initiateLogin" /\ task[u].pc = "done" /\ ~task[u].threw
        /\ task[t].state # task[u].state
        /\ nav.to = "auth" /\ nav.state = task[t].state
        /\ store.oauth_state = task[t].state

\* C15: the logout URL's id_token_hint is the ID token that was in the
\* Session Store when logout() was called (no hint when there was none), and
\* its post_logout_redirect_uri is the application's origin.
C15_LogoutUrl ==
    [][\A t \in AllTasks :
          /\ (Calls(t, "logout") /\ ~task'[t].threw)
             => task'[t].idToken = store.id_token
          /\ (Finishes(t, "logout") /\ ~task'[t].threw)
             => (/\ nav'.to = "logout"
                 /\ nav'.id_token_hint = task'[t].idToken
                 /\ nav'.post_logout_redirect_uri = "origin")]_vars

\* A logout() called with the ID token "idtok123" stored has redirected.
C15_Witness ==
    \E t \in AllTasks :
        /\ task[t].op = "logout" /\ task[t].pc = "done" /\ ~task[t].threw
        /\ task[t].idToken = "idtok123"
        /\ nav.to = "logout" /\ nav.id_token_hint = "idtok123"
        /\ nav.post_logout_redirect_uri = "origin"

\* C16: when the token endpoint refuses the code exchange with an error
\* description, the error handleCallback() throws to its caller carries that
\* description.
C16_ExchangeFailureCarriesDescription ==
    [][\A t \in AllTasks :
          (Finishes(t, "handleCallback") /\ task'[t].description # NULL)
          => (/\ task'[t].threw
              /\ task'[t].err = TokenExchangeRejected(task'[t].description))]_vars

\* The step is a call of isTokenExpired().
IsTokenExpiredCalled ==
    task'["t2"].op = "isTokenExpired" /\ task'["t2"] # task["t2"]

\* C17: for a TokenSet stored at time T (ms) with lifetime expires_in (s),
\* isTokenExpired() is true exactly when no expiry is stored or the current
\* time is later than T + expires_in * 1000 - 30000; with expires_in = 300 it
\* is false 269 s after T and true 271 s after T.
C17_ExpiryBuffer ==
    [][IsTokenExpiredCalled =>
          LET T == task["t1"].at
              expires_in == task["t1"].tokens.expires_in
              expired == task'["t2"].ok
          IN  /\ store.token_expires_at = <<>> => expired
              /\ store.token_expires_at # <<>> =>
                    /\ task["t1"].op = "storeTokens"
                    /\ expired <=> (now > T + expires_in * 1000 - 30000)
                    /\ (expires_in = 300 /\ now = T + 269000) => ~expired
                    /\ (expires_in = 300 /\ now = T + 271000) => expired]_vars

\* isTokenExpired() has answered true 271 s after a TokenSet with
\* expires_in = 300 was stored at a time other than 0.
C17_Witness ==
    /\ task["t1"].op = "storeTokens" /\ task["t1"].tokens.expires_in = 300
    /\ task["t1"].at > 0
    /\ store.token_expires_at # <<>>
    /\ task["t2"].op = "isTokenExpired"
    /\ task["t2"].at = task["t1"].at + 271000
    /\ task["t2"].ok

\* The unreserved characters [A-Za-z0-9-._~].
Unreserved ==
    {"A", "B", "C", "D", "E", "F", "G", "H", "I", "J", "K", "L", "M",
     "N", "O", "P", "Q", "R", "S", "T", "U", "V", "W", "X", "Y", "Z",
     "a", "b", "c", "d", "e", "f", "g", "h", "i", "j", "k", "l", "m",
     "n", "o", "p", "q", "r", "s", "t", "u", "v", "w", "x", "y", "z",
     "0", "1", "2", "3", "4", "5", "6", "7", "8", "9", "-", ".", "_", "~"}

\* The call in slot "t1" has returned a string of the requested length made
\* of unreserved characters.
VerifierWellFormed ==
    /\ ~task["t1"].threw
    /\ Len(task["t1"].verifier) = task["t1"].length
    /\ \A i \in 1..Len(task["t1"].verifier) :
          task["t1"].verifier[i] \in Unreserved

LoginCompleted ==
    /\ task["cb"].op = "handleCallback"
    /\ task["cb"].settled /\ ~task["cb"].threw

\* C19: on the page on which a login has completed, the session state is
\* recomputed to Authenticated, so that no initiateLogin() is called again
\* and no second redirect to the provider is made.
C19_LoginCompletionAuthenticates ==
    LoginCompleted =>
        /\ \A t \in AllTasks : task[t].op # "initiateLogin"
        /\ nav.to # "auth"

\* A handleCallback() has succeeded on the current page.
CallbackSucceeded ==
    \E u \in AllTasks :
        task[u].op = "handleCallback" /\ task[u].pc = "done" /\ ~task[u].threw

\* C20: when a handleCallback() succeeds, the Session Store holds the access
\* token, the refresh token and the expiry of the TokenSet it returns and
\* neither verifier nor state, and the location has no query parameters; a
\* handleCallback() called after that on the same page throws the
\* malformed-callback error without a token request.
C20_SuccessfulCallbackEndState ==
    [][\A t \in AllTasks :
          /\ (Finishes(t, "handleCallback") /\ ~task'[t].threw)
             => (/\ task'[t].tokens # NoTokens
                 /\ store'.access_token = access_token(task'[t].tokens)
                 /\ store'.refresh_token = refresh_token(task'[t].tokens)
                 /\ parseInt(store'.token_expires_at)
                       = now + task'[t].tokens.expires_in * 1000
                 /\ NoPkce(store')
                 /\ url' = NoParams)
          /\ (Calls(t, "handleCallback") /\ CallbackSucceeded)
             => (/\ task'[t].threw /\ task'[t].err = MalformedCallback
                 /\ task'[t].nToken = 0)]_vars

\* After a successful handleCallback() another one, on the same page, has
\* thrown the malformed-callback error.
C20_Witness ==
    \E t, u \in AllTasks :
        /\ t # u
        /\ task[t].op = "handleCallback" /\ task[t].pc = "done" /\ ~task[t].threw
        /\ store.access_token = access_token(task[t].tokens)
        /\ task[u].op = "handleCallback" /\ task[u].pc = "done"
        /\ task[u].err = MalformedCallback /\ task[u].nToken = 0
        /\ url = NoParams /\ NoPkce(store)

\* C21: an activation starts Initializing with validateToken() called; the
\* session check calls getCurrentUser() only after validateToken() returned
\* true; Initializing is eventually left, for a state that is authenticated
\* or has no user, and is never entered again.
C21_InitializingIsLeftForGood ==
    /\ auth.isLoading /\ task["chk"].op = "validateToken"
    /\ [][/\ (task'["chk"].op = "getCurrentUser"
               /\ task["chk"].op # "getCurrentUser")
             => (/\ task["chk"].op = "validateToken"
                 /\ task["chk"].pc = "done"
                 /\ task["chk"].ok /\ ~task["chk"].threw)
          /\ ~auth.isLoading => ~auth'.isLoading
          /\ (auth.isLoading /\ ~auth'.isLoading)
             => (/\ task'["chk"].settled
                 /\ (auth'.isAuthenticated \/ auth'.user = NULL))]_vars
    /\ <>(~auth.isLoading)

\* The session check has ended after validateToken() refreshed the tokens
\* and getCurrentUser() was called.
C21_Witness ==
    /\ ~auth.isLoading /\ auth.isAuthenticated
    /\ task["chk"].op = "getCurrentUser" /\ task["chk"].settled
    /\ store.access_token = access_token([n |-> 2, expires_in |-> 31,
                                           id_token |-> NULL])

\* C22: getCurrentUser() without a stored access token returns nothing and
\* sends nothing; with a non-expired one it sends the userinfo request and no
\* refresh request; with an expired one it sends the refresh request first,
\* and a userinfo request only after a successful refresh, with the access
\* token that refresh returned; every userinfo request it sends carries the
\* access token that is in the Session Store at that moment, so none is sent
\* without one.
C22_GetCurrentUserRefreshesFirst ==
    [][\A t \in AllTasks :
          /\ (Calls(t, "getCurrentUser") /\ getStoredAccessToken(store) = NoToken)
             => (/\ task'[t].pc = "done" /\ task'[t].user = NULL
                 /\ ~task'[t].threw
                 /\ task'[t].nUserInfo = 0 /\ task'[t].nRefresh = 0)
          /\ (/\ Calls(t, "getCurrentUser")
              /\ getStoredAccessToken(store) # NoToken
              /\ now <= parseInt(store.token_expires_at) - 30000)
             => (/\ task'[t].pc = "getCurrentUser.getUserInfo"
                 /\ task'[t].nUserInfo = 1 /\ task'[t].nRefresh = 0
                 /\ task'[t].accessToken = getStoredAccessToken(store))
          /\ (/\ Calls(t, "getCurrentUser")
              /\ getStoredAccessToken(store) # NoToken
              /\ now > parseInt(store.token_expires_at) - 30000)
             => (/\ task'[t].nUserInfo = 0
                 /\ IF getStoredRefreshToken(store) # NoToken
                    THEN /\ task'[t].pc = "getCurrentUser.refreshToken"
                         /\ task'[t].nRefresh = 1
                    ELSE /\ task'[t].pc = "done" /\ task'[t].user = NULL
                         /\ ~task'[t].threw /\ task'[t].nRefresh = 0)
          /\ task'[t].op = "getCurrentUser"
             => (/\ task'[t].nRefresh <= 1 /\ task'[t].nUserInfo <= 1
                 /\ ~task'[t].threw
                 /\ (task'[t].nRefresh = 1 /\ task'[t].nUserInfo = 1)
                    => (/\ task'[t].answer = "ok"
                        /\ task'[t].accessToken = access_token(task'[t].tokens)))
          /\ (/\ task'[t].op = "getCurrentUser"
              /\ task'[t].pc = "getCurrentUser.getUserInfo"
              /\ task'[t] # task[t])
             => (/\ task'[t].accessToken # NoToken
                 /\ task'[t].accessToken = getStoredAccessToken(store'))]_vars

\* A getCurrentUser() called with an expired access token has refreshed and
\* then fetched the profile with the new access token.
C22_Witness ==
    \E t \in AllTasks :
        /\ task[t].op = "getCurrentUser" /\ task[t].pc = "done"
        /\ task[t].nRefresh = 1 /\ task[t].nUserInfo = 1
        /\ task[t].answer = "ok"
        /\ task[t].user # NULL
        /\ task[t].accessToken = access_token(task[t].tokens)

\* C23: whenever the Session Store holds an access token it holds an expiry
\* instant too.
C23_AccessTokenHasExpiry ==
    store.access_token # NoToken => store.token_expires_at # <<>>

\* The Session Store holds the access token and the expiry a refresh has
\* written over those of the code exchange.
C23_Witness ==
    /\ store.access_token # NoToken
    /\ store.token_expires_at # <<>>
    /\ \E t \in AllTasks :
          /\ task[t].answer = "ok"
          /\ store.access_token = access_token(task[t].tokens)
          /\ parseInt(store.token_expires_at) > 31000

\* The step is the continuation of the Callback component's await.
CallbackEnds == ~task["cb"].settled /\ task'["cb"].settled

\* C24: when authService.handleCallback() has failed, the Callback component
\* shows the error, stays off the dashboard and, once its timer fires,
\* navigates to /login, which eventually happens; when it has succeeded the
\* component navigates to /dashboard and shows no error; either way the
\* processing flag is cleared.
C24_CallbackOutcome ==
    /\ [][/\ (CallbackEnds /\ task["cb"].threw)
             => (/\ cb'.error = task["cb"].err /\ cb'.error # NULL
                 /\ cb'.timer
                 /\ route' = route
                 /\ ~cb'.isProcessing)
          /\ (CallbackEnds /\ ~task["cb"].threw)
             => (/\ cb'.error = NULL /\ ~cb'.timer
                 /\ route' = "/dashboard"
                 /\ ~cb'.isProcessing)
          /\ (cb.timer /\ ~cb'.timer) => route' = "/login"
          /\ (task["cb"].settled /\ cb.error = NULL) => cb'.error = NULL
          /\ (task["cb"].threw /\ (CallbackEnds \/ cb' # cb))
             => route' # "/dashboard"]_vars
    /\ (task["cb"].pc = "done" /\ task["cb"].threw)
          ~> (cb.error # NULL /\ ~cb.timer /\ ~cb.isProcessing)

\* The component has shown the failure of a refused code exchange, its timer
\* has fired and the route is /login.
C24_Witness ==
    /\ task["cb"].settled /\ task["cb"].threw
    /\ cb.error = TokenExchangeFailed
    /\ ~cb.timer /\ ~cb.isProcessing
    /\ route = "/login"

\* C25: refreshUser() leaves the session state alone while getCurrentUser()
\* runs; when it ends, isLoading, the route and the Session Store are as
\* before, and the state is authenticated with the returned profile exactly
\* when getCurrentUser() returned one, otherwise unauthenticated with no user.
C25_RefreshUserFrame ==
    [][\A t \in UiTasks :
          /\ (Calls(t, "getCurrentUser") /\ task'[t].caller = "refreshUser")
             => auth' = auth
          /\ RefreshUserEnds(t)
             => (/\ auth'.isLoading = auth.isLoading
                 /\ ~auth'.isLoading
                 /\ auth'.isAuthenticated
                       <=> (~task[t].threw /\ task[t].user # NULL)
                 /\ auth'.user = (IF auth'.isAuthenticated
                                  THEN task[t].user ELSE NULL)
                 /\ <<store, route, cb>>' = <<store, route, cb>>)]_vars

\* A refreshUser() has ended without a profile on a state that was
\* authenticated: the state is unauthenticated, not loading.
C25_Witness ==
    \E t \in UiTasks :
        /\ task[t].caller = "refreshUser" /\ task[t].settled
        /\ task[t].user = NULL
        /\ ~auth.isAuthenticated /\ auth.user = NULL /\ ~auth.isLoading

\* The Session Store holds the TokenSet a successful handleCallback() of the
\* Callback component has persisted.
CallbackTokensStored ==
    /\ task["cb"].op = "handleCallback"
    /\ task["cb"].pc = "done" /\ ~task["cb"].threw
    /\ getStoredAccessToken(store) = access_token(task["cb"].tokens)
    /\ getStoredRefreshToken(store) = refresh_token(task["cb"].tokens)

\* The step is one of the session check's validateToken(), begun at
\* activation, in which its refresh fails or its inner catch block runs.
StaleCheckFails ==
    /\ task["chk"].op = "validateToken"
    /\ task'["chk"] # task["chk"]
    /\ \/ RefreshAnswered("chk") /\ task'["chk"].answer # "ok"
       \/ task["chk"].pc = "validateToken.catch"

TokenFields(s) == <<s.access_token, s.refresh_token, s.token_expires_at>>

\* C27: a step of handleCallback() writes the token fields of the Session
\* Store only when it is the successful end of the call, after the code
\* exchange and the profile fetch have both succeeded; when the profile fetch
\* fails after a successful exchange, handleCallback() throws and the Session
\* Store is left as it was.
C27_TokensPersistedOnlyAfterProfile ==
    [][\A t \in AllTasks :
          /\ (task'[t].op = "handleCallback" /\ task'[t] # task[t]
               /\ TokenFields(store') # TokenFields(store))
             => (/\ task[t].pc = "getUserInfo"
                 /\ task'[t].pc = "done" /\ ~task'[t].threw
                 /\ task'[t].user # NULL
                 /\ store' = storeTokens(removePkce(store), task[t].tokens, now))
          /\ (task[t].op = "handleCallback" /\ task[t].pc = "getUserInfo"
               /\ task'[t].threw)
             => (/\ task'[t].pc = "done"
                 /\ task'[t].err = UserInfoFailed
                 /\ store' = store)]_vars

\* A handleCallback() whose exchange succeeded and whose profile fetch failed
\* has thrown, and the Session Store holds no TokenSet.
C27_Witness ==
    \E t \in AllTasks :
        /\ task[t].op = "handleCallback" /\ task[t].pc = "done"
        /\ task[t].threw /\ task[t].err = UserInfoFailed
        /\ task[t].tokens.n > 0
        /\ NoTokenSet(store)

\* C28: whatever initiateLogin() invocations overlap, the Session Store holds
\* either no verifier and no state or the verifier and the state one
\* invocation generated together, and while a redirect to the provider is
\* pending they are the ones its authorization URL was built from.
C28_PkceFromLastInvocation ==
    /\ (store.code_verifier = NULL) <=> (store.oauth_state = NULL)
    /\ store.code_verifier # NULL
          => [verifier |-> store.code_verifier, state |-> store.oauth_state]
                \in LoginSecrets
    /\ (nav.to = "auth" /\ store.oauth_state # NULL)
          => /\ nav.state = store.oauth_state
             /\ nav.code_challenge = generateCodeChallenge(store.code_verifier)

\* Two initiateLogin() invocations with different secrets overlap: one has
\* assigned its URL and persisted its pair while the other still awaits its
\* challenge.
C28_Witness ==
    \E t, u \in AllTasks :
        /\ task[t].op = "initiateLogin" /\ task[t].pc = "done" /\ ~task[t].threw
        /\ task[u].op = "initiateLogin"
        /\ task[u].pc = "generateCodeChallenge"
        /\ task[u].verifier # task[t].verifier
        /\ store.code_verifier = task[t].verifier
        /\ store.oauth_state = task[t].state
        /\ nav.to = "auth" /\ nav.state = task[t].state

\* AuthProvider.logout() made from slot t has set the state after
\* authService.logout() cleared the tokens and redirected.
LoggedOut(t) ==
    task[t].caller = "logout" /\ task[t].settled /\ ~task[t].threw

====
